---- MODULE Spec2Model ----
(***************************************************************************)
(* State-machine model of the YouTube statistics tracker's route handlers: *)
(*   GET  /api/scheduledVideoStatsFetch   (the refresh scheduler)          *)
(*   POST /api/getChannelVideos           (video discovery)                *)
(*   POST /api/getChannelInfo             (on-demand channel refresh)      *)
(* together with the Supabase tables they read and write and the YouTube   *)
(* Data API they call.  Time is counted in whole hours.  A handler is      *)
(* split into one action per awaited store or API call, so that requests   *)
(* interleave exactly where the JavaScript event loop lets them.           *)
(***************************************************************************)
EXTENDS Bags, FiniteSets, Integers, Sequences, TLC

VARIABLES now, faults, started, channels, channel_stats_logs, videos, video_stats_logs,
          sched, disc, info, vinfo

vars == <<now, faults, started, channels, channel_stats_logs, videos, video_stats_logs,
          sched, disc, info, vinfo>>

(***************************************************************************)
(* Bounds of the model.                                                    *)
(***************************************************************************)
MaxTime == 2        \* the clock stops ticking at this hour
MaxFaults == 1      \* failures the environment may inject in one behaviour
MaxVideos == 2      \* videos the channel's uploads playlist can hold (Spec)
MaxPasses == 2      \* scheduler invocations in one behaviour
MaxDiscoveries == 2 \* getChannelVideos requests in one behaviour
MaxInfoRequests == 2 \* getChannelInfo requests in one behaviour
MaxDue == 101       \* largest pre-populated videos table (SpecPass)

(***************************************************************************)
(* Program constants.                                                      *)
(***************************************************************************)
BatchSize == 50     \* ids per youtube.videos.list call
Null == -1000000    \* JavaScript null / undefined, SQL NULL
Epoch == -480000    \* new Date(0), in hours relative to the model's hour 0

Procs == {1, 2}                 \* concurrent scheduler invocations
ChannelIds == {1}

\* Requests started so far, and how far the getChannelInfo requests got.
NoneStarted == [pass |-> 0, disc |-> 0, info |-> 0, infoFetched |-> 0,
                infoLogged |-> 0]

Min(a, b) == IF a <= b THEN a ELSE b

(***************************************************************************)
(* The YouTube Data API (environment).                                     *)
(***************************************************************************)
\* snippet.publishedAt of a video: a fixed fact of the video.
PublishedTimes == <<0, -23, -71, Null, -200>>
PublishedAtOf(v) == PublishedTimes[(v % Len(PublishedTimes)) + 1]

\* statistics of a video as the API returns them: decimal strings (here the
\* sequence of their digits), any of which may be absent or empty.
StatChoices ==
  << [viewCount |-> <<1, 2>>, likeCount |-> <<0>>, commentCount |-> <<>>],
     [viewCount |-> <<7>>, likeCount |-> <<3>>],
     [viewCount |-> <<2, 0>>, likeCount |-> <<5>>, commentCount |-> <<1>>] >>
NoStatistics == [absent |-> TRUE]
RawStats(v, t) == StatChoices[((v + t) % Len(StatChoices)) + 1]

\* videos.list response items for the requested ids: the ids in `omitted`
\* have no item, the ids in `nostat` have an item without statistics.
VideoItems(ids, omitted, nostat, t) ==
  LET kept == SelectSeq(ids, LAMBDA v : v \notin omitted)
  IN  [j \in 1 .. Len(kept) |->
         IF kept[j] \in nostat
           THEN [id |-> kept[j]]
           ELSE [id |-> kept[j], statistics |-> RawStats(kept[j], t)]]

\* Which ids of a batch the API may fail to return: at most n of its ends.
MissChoices(ids, n) ==
  IF n = 0 \/ Len(ids) = 0 THEN {{}}
  ELSE LET ends == {ids[1], ids[Len(ids)]}
       IN  {S \in SUBSET ends : Cardinality(S) <= n}

(***************************************************************************)
(* Conversions.                                                            *)
(***************************************************************************)
RECURSIVE ParseInt10(_)
ParseInt10(s) ==
  IF s = <<>> THEN 0 ELSE 10 * ParseInt10(SubSeq(s, 1, Len(s) - 1)) + s[Len(s)]

\* statistics.X ? parseInt(statistics.X, 10) : null
CountOf(statistics, key) ==
  IF key \in DOMAIN statistics /\ statistics[key] # <<>>
    THEN ParseInt10(statistics[key])
    ELSE Null

\* new Date(published_at || 0).getTime()
PublishedDate(published_at) == IF published_at = Null THEN Epoch ELSE published_at

\* .lte(column, t): a NULL never matches
Lte(x, t) == x # Null /\ x <= t

\* The members of a set of row ids, in ascending order.
SeqOfSet(S) ==
  IF S = {} THEN <<>>
  ELSE LET top == CHOOSE x \in S : \A y \in S : y <= x
       IN  SelectSeq([j \in 1 .. top |-> j], LAMBDA v : v \in S)

Range(s) == {s[j] : j \in 1 .. Len(s)}
BagOfSeq(s) == [r \in Range(s) |-> Cardinality({j \in 1 .. Len(s) : s[j] = r})]

\* A stricter store: an insert that skips a row the table already holds.
InsertDistinct(table, rows) ==
  table (+) SetToBag({r \in Range(rows) : ~BagIn(r, table)})

\* A store that keeps one log row per subject: the insert replaces the
\* rows it finds for the same video or channel.
InsertReplacing(table, rows) ==
  LET key(r) == IF "video_id" \in DOMAIN r THEN r.video_id ELSE r.channel_id
      kept == {r \in BagToSet(table) :
                 \A j \in 1 .. Len(rows) : key(rows[j]) # key(r)}
  IN  [r \in kept |-> table[r]] (+) BagOfSeq(rows)

\* supabase.from(<log table>).insert(rows): every row is appended.
InsertInto(table, rows) == table (+) BagOfSeq(rows)

(***************************************************************************)
(* GET /api/scheduledVideoStatsFetch                                       *)
(***************************************************************************)
IdlePass ==
  [pc |-> "idle", status |-> 0, currentTime |-> Null,
   videosToUpdate |-> <<>>, dueAt |-> <<>>, i |-> 0, calls |-> <<>>,
   videoStatsLogsToInsert |-> <<>>, videoScheduleUpdates |-> <<>>,
   unmatched |-> {}, logInsert |-> "none", k |-> 0, updated |-> {},
   failed |-> {}, processed |-> Null]

\* A summary that counts the videos the pass staged an update for.
SummaryOfStaged(s) == Len(s.videoScheduleUpdates)

\* `Processed stats for ${videosToUpdate?.length || 0} videos.`
SummaryCount(s) == Len(s.videosToUpdate)

\* The policy with the boundaries on the other side: < where the code has <=.
StrictBoundaries(hoursSincePublished) ==
  IF hoursSincePublished < 24 THEN 1
  ELSE IF hoursSincePublished < 72 THEN 3
  ELSE 24

\* The age-based interval policy.
NextFetchFrequencyHours(hoursSincePublished) ==
  IF hoursSincePublished <= 24 THEN 1
  ELSE IF hoursSincePublished <= 72 THEN 3
  ELSE 24

\* A log row that leaves the like count out.
LogRowWithoutLikes(id, fetchedAt, statistics) ==
  [video_id |-> id, fetched_at |-> fetchedAt,
   view_count |-> CountOf(statistics, "viewCount"),
   like_count |-> Null,
   comment_count |-> CountOf(statistics, "commentCount")]

LogRowOf(id, fetchedAt, statistics) ==
  [video_id |-> id, fetched_at |-> fetchedAt,
   view_count |-> CountOf(statistics, "viewCount"),
   like_count |-> CountOf(statistics, "likeCount"),
   comment_count |-> CountOf(statistics, "commentCount")]

\* A schedule counted from the publication time instead of the pass's clock.
ScheduleFromPublication(row, currentTime, fetchedAt, statistics) ==
  LET hoursSincePublished == currentTime - PublishedDate(row.published_at)
      nextFetchFrequencyHours == NextFetchFrequencyHours(hoursSincePublished)
  IN  [id |-> row.id,
       last_stat_logged_at |-> fetchedAt,
       next_stat_fetch_at |->
          PublishedDate(row.published_at) + nextFetchFrequencyHours,
       stat_fetch_frequency_hours |-> nextFetchFrequencyHours,
       view_count |-> CountOf(statistics, "viewCount"),
       like_count |-> CountOf(statistics, "likeCount"),
       comment_count |-> CountOf(statistics, "commentCount")]

\* A multiplicative backoff: the interval is twice the one the row has.
ScheduleWithBackoff(row, currentTime, fetchedAt, statistics) ==
  LET hoursSincePublished == currentTime - PublishedDate(row.published_at)
      nextFetchFrequencyHours ==
        IF row.stat_fetch_frequency_hours # Null
          THEN Min(2 * row.stat_fetch_frequency_hours, 24)
          ELSE NextFetchFrequencyHours(hoursSincePublished)
  IN  [id |-> row.id,
       last_stat_logged_at |-> fetchedAt,
       next_stat_fetch_at |-> currentTime + nextFetchFrequencyHours,
       stat_fetch_frequency_hours |-> nextFetchFrequencyHours,
       view_count |-> CountOf(statistics, "viewCount"),
       like_count |-> CountOf(statistics, "likeCount"),
       comment_count |-> CountOf(statistics, "commentCount")]

ScheduleUpdateOf(row, currentTime, fetchedAt, statistics) ==
  LET hoursSincePublished == currentTime - PublishedDate(row.published_at)
      nextFetchFrequencyHours == NextFetchFrequencyHours(hoursSincePublished)
  IN  [id |-> row.id,
       last_stat_logged_at |-> fetchedAt,
       next_stat_fetch_at |-> currentTime + nextFetchFrequencyHours,
       stat_fetch_frequency_hours |-> nextFetchFrequencyHours,
       view_count |-> CountOf(statistics, "viewCount"),
       like_count |-> CountOf(statistics, "likeCount"),
       comment_count |-> CountOf(statistics, "commentCount")]

\* A loop body that does not ask for statistics: an item without them is
\* processed with every count missing.
AcceptedWithoutStatistics(items, videosToUpdate) ==
  LET matching == SelectSeq(items, LAMBDA it :
                    \E j \in 1 .. Len(videosToUpdate) :
                       videosToUpdate[j].id = it.id)
  IN  [j \in 1 .. Len(matching) |->
         IF "statistics" \in DOMAIN matching[j] THEN matching[j]
         ELSE [id |-> matching[j].id, statistics |-> NoStatistics]]

\* The response items the loop body accepts: an id, statistics, and a
\* selected row with that youtube_video_id.
Accepted(items, videosToUpdate) ==
  SelectSeq(items, LAMBDA it :
     /\ "statistics" \in DOMAIN it
     /\ \E j \in 1 .. Len(videosToUpdate) : videosToUpdate[j].id = it.id)

RowFor(videosToUpdate, id) ==
  videosToUpdate[CHOOSE j \in 1 .. Len(videosToUpdate) : videosToUpdate[j].id = id]

\* const currentTime = new Date(): an invocation starts.  The count of
\* invocations stops at MaxPasses.
PassStart(p) ==
  /\ sched[p].pc = "idle"
  /\ \A q \in Procs : q < p => sched[q].pc # "idle"
  /\ started' = [started EXCEPT !.pass = Min(@ + 1, MaxPasses)]
  /\ sched' = [sched EXCEPT ![p] =
        [IdlePass EXCEPT !.pc = "select", !.currentTime = now]]
  /\ UNCHANGED <<now, faults, channels, channel_stats_logs, videos,
                 video_stats_logs, disc, info, vinfo>>

\* An invocation among the first MaxPasses of a behaviour.
PassBegin(p) == started.pass < MaxPasses /\ PassStart(p)

\* A select that leaves out the rows another invocation in flight has
\* selected.
DueIdsUnclaimed(t) ==
  {v \in DOMAIN videos :
     /\ Lte(videos[v].next_stat_fetch_at, t)
     /\ \A q \in Procs : \A j \in 1 .. Len(sched[q].videosToUpdate) :
          sched[q].videosToUpdate[j].id # v}

\* A select with a row limit: the first hundred due rows only.
DueIdsLimited(t) ==
  LET due == {v \in DOMAIN videos : Lte(videos[v].next_stat_fetch_at, t)}
  IN  {v \in due : Cardinality({w \in due : w < v}) < 100}

\* A select that tracks a video only while it is on the hourly interval.
DueIdsHourly(t) ==
  {v \in DOMAIN videos :
     /\ Lte(videos[v].next_stat_fetch_at, t)
     /\ videos[v].stat_fetch_frequency_hours = 1}

\* select ... from videos where next_stat_fetch_at <= currentTime
DueIds(t) == {v \in DOMAIN videos : Lte(videos[v].next_stat_fetch_at, t)}

PassSelect(p) ==
  /\ sched[p].pc = "select"
  /\ \/ /\ faults > 0                       \* fetchError: thrown, caught, 500
        /\ faults' = faults - 1
        /\ sched' = [sched EXCEPT ![p].pc = "done", ![p].status = 500]
     \/ /\ LET ids == SeqOfSet(DueIds(sched[p].currentTime))
               rows == [j \in 1 .. Len(ids) |->
                          [id |-> ids[j],
                           published_at |-> videos[ids[j]].published_at,
                           stat_fetch_frequency_hours |->
                              videos[ids[j]].stat_fetch_frequency_hours]]
           IN  sched' = [sched EXCEPT
                 ![p].videosToUpdate = rows,
                 ![p].dueAt = [j \in 1 .. Len(ids) |->
                                 videos[ids[j]].next_stat_fetch_at],
                 ![p].pc = IF Len(ids) = 0 THEN "done" ELSE "fetch",
                 ![p].status = IF Len(ids) = 0 THEN 200 ELSE 0]
        /\ UNCHANGED faults
  /\ UNCHANGED <<now, started, channels, channel_stats_logs, videos, video_stats_logs,
                 disc, info, vinfo>>

\* A loop that, when a batch fetch throws, still inserts the log rows staged
\* by the batches before it.
FetchBatchKeepingEarlierRows(p) ==
  /\ sched[p].pc = "fetch"
  /\ LET s == sched[p]
         videoIdsToFetch == [j \in 1 .. Len(s.videosToUpdate) |->
                               s.videosToUpdate[j].id]
         batchVideoIds == SubSeq(videoIdsToFetch, s.i + 1,
                                 Min(s.i + BatchSize, Len(videoIdsToFetch)))
         calls == Append(s.calls, batchVideoIds)
     IN  \/ /\ faults > 0                   \* videos.list throws: caught, 500
            /\ faults' = faults - 1
            /\ sched' = [sched EXCEPT ![p].calls = calls, ![p].pc = "done",
                                      ![p].status = 500]
            /\ video_stats_logs' =
                 InsertInto(video_stats_logs, s.videoStatsLogsToInsert)
         \/ \E omitted \in MissChoices(batchVideoIds, faults) :
            \E nostat \in MissChoices(batchVideoIds,
                                      faults - Cardinality(omitted)) :
              /\ omitted \cap nostat = {}
              /\ LET items == VideoItems(batchVideoIds, omitted, nostat, now)
                     acc == Accepted(items, s.videosToUpdate)
                     fetchedAtISO == now
                     logs == s.videoStatsLogsToInsert \o
                               [j \in 1 .. Len(acc) |->
                                  LogRowOf(RowFor(s.videosToUpdate, acc[j].id).id,
                                           fetchedAtISO, acc[j].statistics)]
                     upds == s.videoScheduleUpdates \o
                               [j \in 1 .. Len(acc) |->
                                  ScheduleUpdateOf(
                                    RowFor(s.videosToUpdate, acc[j].id),
                                    s.currentTime, fetchedAtISO,
                                    acc[j].statistics)]
                     last == s.i + BatchSize >= Len(videoIdsToFetch)
                 IN  sched' = [sched EXCEPT
                       ![p].calls = calls,
                       ![p].unmatched = s.unmatched \cup omitted \cup nostat,
                       ![p].i = s.i + BatchSize,
                       ![p].videoStatsLogsToInsert = logs,
                       ![p].videoScheduleUpdates = upds,
                       ![p].pc = IF ~last THEN "fetch"
                                 ELSE IF Len(logs) > 0 THEN "insert"
                                 ELSE "done",
                       ![p].status = IF last /\ Len(logs) = 0 THEN 200 ELSE 0,
                       ![p].processed = IF last /\ Len(logs) = 0
                                          THEN SummaryCount(s) ELSE Null]
              /\ faults' = faults - Cardinality(omitted) - Cardinality(nostat)
              /\ UNCHANGED video_stats_logs
  /\ UNCHANGED <<now, started, channels, channel_stats_logs, videos, disc, info, vinfo>>

\* One iteration of  for (i = 0; i < videoIdsToFetch.length; i += 50).
FetchBatch(p) ==
  /\ sched[p].pc = "fetch"
  /\ LET s == sched[p]
         videoIdsToFetch == [j \in 1 .. Len(s.videosToUpdate) |->
                               s.videosToUpdate[j].id]
         batchVideoIds == SubSeq(videoIdsToFetch, s.i + 1,
                                 Min(s.i + BatchSize, Len(videoIdsToFetch)))
         calls == Append(s.calls, batchVideoIds)
     IN  \/ /\ faults > 0                   \* videos.list throws: caught, 500
            /\ faults' = faults - 1
            /\ sched' = [sched EXCEPT ![p].calls = calls, ![p].pc = "done",
                                      ![p].status = 500]
         \/ \E omitted \in MissChoices(batchVideoIds, faults) :
            \E nostat \in MissChoices(batchVideoIds,
                                      faults - Cardinality(omitted)) :
              /\ omitted \cap nostat = {}
              /\ LET items == VideoItems(batchVideoIds, omitted, nostat, now)
                     acc == Accepted(items, s.videosToUpdate)
                     fetchedAtISO == now
                     logs == s.videoStatsLogsToInsert \o
                               [j \in 1 .. Len(acc) |->
                                  LogRowOf(RowFor(s.videosToUpdate, acc[j].id).id,
                                           fetchedAtISO, acc[j].statistics)]
                     upds == s.videoScheduleUpdates \o
                               [j \in 1 .. Len(acc) |->
                                  ScheduleUpdateOf(
                                    RowFor(s.videosToUpdate, acc[j].id),
                                    s.currentTime, fetchedAtISO,
                                    acc[j].statistics)]
                     last == s.i + BatchSize >= Len(videoIdsToFetch)
                 IN  sched' = [sched EXCEPT
                       ![p].calls = calls,
                       ![p].unmatched = s.unmatched \cup omitted \cup nostat,
                       ![p].i = s.i + BatchSize,
                       ![p].videoStatsLogsToInsert = logs,
                       ![p].videoScheduleUpdates = upds,
                       ![p].pc = IF ~last THEN "fetch"
                                 ELSE IF Len(logs) > 0 THEN "insert"
                                 ELSE "done",
                       ![p].status = IF last /\ Len(logs) = 0 THEN 200 ELSE 0,
                       ![p].processed = IF last /\ Len(logs) = 0
                                          THEN SummaryCount(s) ELSE Null]
              /\ faults' = faults - Cardinality(omitted) - Cardinality(nostat)
  /\ UNCHANGED <<now, started, channels, channel_stats_logs, videos, video_stats_logs,
                 disc, info, vinfo>>

\* A pass that gives up when the log insert fails.
InsertLogsOrAbort(p) ==
  /\ sched[p].pc = "insert"
  /\ \/ /\ faults > 0
        /\ faults' = faults - 1
        /\ sched' = [sched EXCEPT ![p].logInsert = "failed", ![p].pc = "done",
                                  ![p].status = 500]
        /\ UNCHANGED video_stats_logs
     \/ /\ video_stats_logs' =
             InsertInto(video_stats_logs, sched[p].videoStatsLogsToInsert)
        /\ sched' = [sched EXCEPT ![p].logInsert = "ok", ![p].pc = "update"]
        /\ UNCHANGED faults
  /\ UNCHANGED <<now, started, channels, channel_stats_logs, videos, disc, info, vinfo>>

\* One transaction for both writes: the insert of the log rows also applies
\* every schedule update.
InsertLogsWithSchedules(p) ==
  /\ sched[p].pc = "insert"
  /\ video_stats_logs' =
       InsertInto(video_stats_logs, sched[p].videoStatsLogsToInsert)
  /\ videos' = [v \in DOMAIN videos |->
                  IF \E j \in 1 .. Len(sched[p].videoScheduleUpdates) :
                       sched[p].videoScheduleUpdates[j].id = v
                    THEN [videos[v] EXCEPT
                            !.next_stat_fetch_at =
                               RowFor(sched[p].videoScheduleUpdates, v)
                                 .next_stat_fetch_at]
                    ELSE videos[v]]
  /\ sched' = [sched EXCEPT ![p].logInsert = "ok", ![p].pc = "update"]
  /\ UNCHANGED <<now, faults, started, channels, channel_stats_logs, disc, info, vinfo>>

\* supabase.from('video_stats_logs').insert(videoStatsLogsToInsert)
InsertLogs(p) ==
  /\ sched[p].pc = "insert"
  /\ \/ /\ faults > 0                       \* statsInsertError: logged only
        /\ faults' = faults - 1
        /\ sched' = [sched EXCEPT ![p].logInsert = "failed", ![p].pc = "update"]
        /\ UNCHANGED video_stats_logs
     \/ /\ video_stats_logs' =
             InsertInto(video_stats_logs, sched[p].videoStatsLogsToInsert)
        /\ sched' = [sched EXCEPT ![p].logInsert = "ok", ![p].pc = "update"]
        /\ UNCHANGED faults
  /\ UNCHANGED <<now, started, channels, channel_stats_logs, videos, disc, info, vinfo>>

\* An update that leaves the stored interval as it was.
ApplyScheduleUpdateKeepingFrequency(row, update) ==
  [row EXCEPT !.last_stat_logged_at = update.last_stat_logged_at,
              !.next_stat_fetch_at = update.next_stat_fetch_at,
              !.view_count = update.view_count,
              !.like_count = update.like_count,
              !.comment_count = update.comment_count]

ApplyScheduleUpdate(row, update) ==
  [row EXCEPT !.last_stat_logged_at = update.last_stat_logged_at,
              !.next_stat_fetch_at = update.next_stat_fetch_at,
              !.stat_fetch_frequency_hours = update.stat_fetch_frequency_hours,
              !.view_count = update.view_count,
              !.like_count = update.like_count,
              !.comment_count = update.comment_count]

\* An update that, when it reports an error, has moved the due time all the
\* same.
UpdateScheduleAdvancingOnFailure(p) ==
  /\ sched[p].pc = "update"
  /\ LET s == sched[p]
         update == s.videoScheduleUpdates[s.k + 1]
         last == s.k + 1 = Len(s.videoScheduleUpdates)
         pc2 == IF last THEN "done" ELSE "update"
         st2 == IF last THEN 200 ELSE 0
         count == IF last THEN SummaryCount(s) ELSE Null
     IN  \/ /\ faults > 0
            /\ faults' = faults - 1
            /\ sched' = [sched EXCEPT ![p].k = s.k + 1,
                                      ![p].failed = s.failed \cup {update.id},
                                      ![p].pc = pc2, ![p].status = st2,
                                      ![p].processed = count]
            /\ videos' = [videos EXCEPT ![update.id].next_stat_fetch_at =
                                           update.next_stat_fetch_at]
         \/ /\ videos' = [videos EXCEPT ![update.id] =
                            ApplyScheduleUpdate(videos[update.id], update)]
            /\ sched' = [sched EXCEPT ![p].k = s.k + 1,
                                      ![p].updated = s.updated \cup {update.id},
                                      ![p].pc = pc2, ![p].status = st2,
                                      ![p].processed = count]
            /\ UNCHANGED faults
  /\ UNCHANGED <<now, started, channels, channel_stats_logs, video_stats_logs, disc, info, vinfo>>

\* One iteration of  for (const update of videoScheduleUpdates).
UpdateSchedule(p) ==
  /\ sched[p].pc = "update"
  /\ LET s == sched[p]
         update == s.videoScheduleUpdates[s.k + 1]
         last == s.k + 1 = Len(s.videoScheduleUpdates)
         pc2 == IF last THEN "done" ELSE "update"
         st2 == IF last THEN 200 ELSE 0
         count == IF last THEN SummaryCount(s) ELSE Null
     IN  \/ /\ faults > 0                   \* scheduleUpdateError: logged only
            /\ faults' = faults - 1
            /\ sched' = [sched EXCEPT ![p].k = s.k + 1,
                                      ![p].failed = s.failed \cup {update.id},
                                      ![p].pc = pc2, ![p].status = st2,
                                      ![p].processed = count]
            /\ UNCHANGED videos
         \/ /\ videos' = IF update.id \in DOMAIN videos
                           THEN [videos EXCEPT ![update.id] =
                                   ApplyScheduleUpdate(videos[update.id], update)]
                           ELSE videos
            /\ sched' = [sched EXCEPT ![p].k = s.k + 1,
                                      ![p].updated = s.updated \cup {update.id},
                                      ![p].pc = pc2, ![p].status = st2,
                                      ![p].processed = count]
            /\ UNCHANGED faults
  /\ UNCHANGED <<now, started, channels, channel_stats_logs, video_stats_logs, disc, info, vinfo>>

\* return NextResponse.json(...): the invocation and its locals are gone.
PassReturn(p) ==
  /\ sched[p].pc = "done"
  /\ sched' = [sched EXCEPT ![p] = IdlePass]
  /\ UNCHANGED <<now, faults, started, channels, channel_stats_logs, videos,
                 video_stats_logs, disc, info, vinfo>>

Pass(p) == PassBegin(p) \/ PassSelect(p) \/ FetchBatch(p) \/ InsertLogs(p)
             \/ UpdateSchedule(p) \/ PassReturn(p)

(***************************************************************************)
(* POST /api/getChannelVideos  (video discovery).  Two revisions of the    *)
(* handler are in the repository: "plain" upserts the rows only, "logged"  *)
(* also upserts the counts and inserts one video_stats_logs row per video. *)
(***************************************************************************)
DiscProcs == {1}
Variants == {"plain", "logged"}

IdleDisc ==
  [pc |-> "idle", status |-> 0, variant |-> "plain", input |-> "none",
   channel |-> Null, rows |-> <<>>, statsLogsToInsert |-> <<>>]

\* What a request body may carry as youtubeChannelId: nothing, the empty
\* string, a falsy value that is not a string (0, false, null), a truthy
\* value that is not a string (a number, an object), or a channel id.
DiscInputs ==
  {[kind |-> k, id |-> Null] : k \in {"absent", "empty", "falsyValue", "truthyValue"}}
    \cup {[kind |-> "id", id |-> c] : c \in ChannelIds}

\* !youtubeChannelId
NotGiven(youtubeChannelId) ==
  youtubeChannelId.kind \in {"absent", "empty", "falsyValue"}

\* The uploads playlist of a channel, as playlistItems.list pages it out.
PlaylistChoices == {SeqOfSet(1 .. n) : n \in 0 .. MaxVideos}

\* A discovery that schedules the first fetch by the video's age.
VideoToSaveByAge(item, channel, t) ==
  [youtube_video_id |-> item.id, channel_id |-> channel,
   published_at |-> PublishedAtOf(item.id),
   next_stat_fetch_at |->
      t + NextFetchFrequencyHours(t - PublishedDate(PublishedAtOf(item.id))),
   stat_fetch_frequency_hours |->
      NextFetchFrequencyHours(t - PublishedDate(PublishedAtOf(item.id))),
   last_stat_logged_at |-> t,
   statistics |-> IF "statistics" \in DOMAIN item THEN item.statistics
                  ELSE NoStatistics,
   hasStatistics |-> "statistics" \in DOMAIN item]

\* "plain": one videoToSave per response item that has an id.
VideoToSave(item, channel, t) ==
  [youtube_video_id |-> item.id, channel_id |-> channel,
   published_at |-> PublishedAtOf(item.id),
   next_stat_fetch_at |-> t + 1,
   stat_fetch_frequency_hours |-> 1,
   last_stat_logged_at |-> t,
   statistics |-> IF "statistics" \in DOMAIN item THEN item.statistics
                  ELSE NoStatistics,
   hasStatistics |-> "statistics" \in DOMAIN item]

\* An upsert whose column list lacks next_stat_fetch_at.
UpsertVideoUnscheduled(table, r, withCounts) ==
  LET old == IF r.youtube_video_id \in DOMAIN table
               THEN table[r.youtube_video_id]
               ELSE [published_at |-> Null, next_stat_fetch_at |-> Null,
                     stat_fetch_frequency_hours |-> Null,
                     last_stat_logged_at |-> Null, view_count |-> Null,
                     like_count |-> Null, comment_count |-> Null]
      new == [old EXCEPT
                !.published_at = r.published_at,
                !.stat_fetch_frequency_hours = r.stat_fetch_frequency_hours,
                !.last_stat_logged_at = r.last_stat_logged_at]
  IN  [v \in DOMAIN table \cup {r.youtube_video_id} |->
         IF v = r.youtube_video_id THEN new ELSE table[v]]

\* An upsert that ignores duplicates: a row that is already stored is kept.
UpsertVideoIgnoringDuplicates(table, r, withCounts) ==
  IF r.youtube_video_id \in DOMAIN table THEN table
  ELSE [v \in DOMAIN table \cup {r.youtube_video_id} |->
          IF v = r.youtube_video_id
            THEN [published_at |-> r.published_at,
                  next_stat_fetch_at |-> r.next_stat_fetch_at,
                  stat_fetch_frequency_hours |-> r.stat_fetch_frequency_hours,
                  last_stat_logged_at |-> r.last_stat_logged_at,
                  view_count |-> IF withCounts
                                   THEN CountOf(r.statistics, "viewCount")
                                   ELSE Null,
                  like_count |-> IF withCounts
                                   THEN CountOf(r.statistics, "likeCount")
                                   ELSE Null,
                  comment_count |-> IF withCounts
                                   THEN CountOf(r.statistics, "commentCount")
                                   ELSE Null]
            ELSE table[v]]

\* upsert(..., { onConflict: 'youtube_video_id' }) of one row: the listed
\* columns are written, the others keep their value (NULL on insert).
UpsertVideo(table, r, withCounts) ==
  LET old == IF r.youtube_video_id \in DOMAIN table
               THEN table[r.youtube_video_id]
               ELSE [published_at |-> Null, next_stat_fetch_at |-> Null,
                     stat_fetch_frequency_hours |-> Null,
                     last_stat_logged_at |-> Null, view_count |-> Null,
                     like_count |-> Null, comment_count |-> Null]
      new == [old EXCEPT
                !.published_at = r.published_at,
                !.next_stat_fetch_at = r.next_stat_fetch_at,
                !.stat_fetch_frequency_hours = r.stat_fetch_frequency_hours,
                !.last_stat_logged_at = r.last_stat_logged_at,
                !.view_count = IF withCounts
                                 THEN CountOf(r.statistics, "viewCount") ELSE @,
                !.like_count = IF withCounts
                                 THEN CountOf(r.statistics, "likeCount") ELSE @,
                !.comment_count = IF withCounts
                                 THEN CountOf(r.statistics, "commentCount") ELSE @]
  IN  [v \in DOMAIN table \cup {r.youtube_video_id} |->
         IF v = r.youtube_video_id THEN new ELSE table[v]]

RECURSIVE UpsertVideos(_, _, _)
UpsertVideos(table, rows, withCounts) ==
  IF rows = <<>> THEN table
  ELSE UpsertVideos(UpsertVideo(table, Head(rows), withCounts), Tail(rows),
                    withCounts)

\* Request validation and the select of the channel row.
DiscBegin(d) ==
  /\ disc[d].pc = "idle"
  /\ started.disc < MaxDiscoveries
  /\ started' = [started EXCEPT !.disc = @ + 1]
  /\ \E variant \in Variants : \E body \in DiscInputs :
       LET base == [IdleDisc EXCEPT !.variant = variant, !.input = body.kind]
           youtubeChannelId == body.id
       IN  IF NotGiven(body)
             THEN /\ disc' = [disc EXCEPT ![d] =
                                [base EXCEPT !.pc = "done", !.status = 400]]
                  /\ UNCHANGED faults
             ELSE \/ /\ faults > 0          \* channelError
                     /\ faults' = faults - 1
                     /\ disc' = [disc EXCEPT ![d] =
                                   [base EXCEPT !.pc = "done", !.status = 404]]
                  \/ /\ UNCHANGED faults
                     /\ disc' = [disc EXCEPT ![d] =
                          IF youtubeChannelId \in DOMAIN channels
                             /\ channels[youtubeChannelId].uploads_playlist_id # Null
                            THEN [base EXCEPT !.pc = "list",
                                              !.channel = youtubeChannelId]
                            ELSE [base EXCEPT !.pc = "done", !.status = 404]]
  /\ UNCHANGED <<now, channels, channel_stats_logs, videos, video_stats_logs,
                 sched, info, vinfo>>

\* playlistItems.list until the cursor is exhausted, then videos.list in
\* batches of 50; every row is stamped with the clock.
DiscList(d) ==
  /\ disc[d].pc = "list"
  /\ \/ /\ faults > 0                       \* an API call throws: caught, 500
        /\ faults' = faults - 1
        /\ disc' = [disc EXCEPT ![d].pc = "done", ![d].status = 500]
     \/ \E videoIds \in PlaylistChoices :
        \E omitted \in MissChoices(videoIds, faults) :
        \E nostat \in MissChoices(videoIds, faults - Cardinality(omitted)) :
          /\ omitted \cap nostat = {}
          /\ faults' = faults - Cardinality(omitted) - Cardinality(nostat)
          /\ LET items == VideoItems(videoIds, omitted, nostat, now)
                 rows == [j \in 1 .. Len(items) |->
                            VideoToSave(items[j], disc[d].channel, now)]
             IN  disc' = [disc EXCEPT
                   ![d].rows = rows,
                   ![d].pc = IF Len(rows) = 0 THEN "done" ELSE "upsert",
                   ![d].status = IF Len(rows) = 0 THEN 200 ELSE 0]
  /\ UNCHANGED <<now, started, channels, channel_stats_logs, videos, video_stats_logs,
                 sched, info, vinfo>>

\* supabase.from('videos').upsert(rows, { onConflict: 'youtube_video_id' })
DiscUpsert(d) ==
  /\ disc[d].pc = "upsert"
  /\ \/ /\ faults > 0                       \* videosUpsertError: 500
        /\ faults' = faults - 1
        /\ disc' = [disc EXCEPT ![d].pc = "done", ![d].status = 500]
        /\ UNCHANGED videos
     \/ /\ UNCHANGED faults
        /\ videos' = UpsertVideos(videos, disc[d].rows,
                                  disc[d].variant = "logged")
        /\ LET withStats == SelectSeq(disc[d].rows, LAMBDA r : r.hasStatistics)
               logs == [j \in 1 .. Len(withStats) |->
                          LogRowOf(withStats[j].youtube_video_id,
                                   withStats[j].last_stat_logged_at,
                                   withStats[j].statistics)]
               toLog == disc[d].variant = "logged" /\ Len(logs) > 0
           IN  disc' = [disc EXCEPT
                 ![d].statsLogsToInsert = IF toLog THEN logs ELSE <<>>,
                 ![d].pc = IF toLog THEN "log" ELSE "done",
                 ![d].status = IF toLog THEN 0 ELSE 200]
  /\ UNCHANGED <<now, started, channels, channel_stats_logs, video_stats_logs, sched, info, vinfo>>

\* "logged" only: supabase.from('video_stats_logs').insert(statsLogsToInsert)
DiscLog(d) ==
  /\ disc[d].pc = "log"
  /\ \/ /\ faults > 0                       \* statsInsertError: logged only
        /\ faults' = faults - 1
        /\ UNCHANGED video_stats_logs
     \/ /\ UNCHANGED faults
        /\ video_stats_logs' =
             InsertInto(video_stats_logs, disc[d].statsLogsToInsert)
  /\ disc' = [disc EXCEPT ![d].pc = "done", ![d].status = 200]
  /\ UNCHANGED <<now, started, channels, channel_stats_logs, videos, sched, info, vinfo>>

DiscReturn(d) ==
  /\ disc[d].pc = "done"
  /\ disc' = [disc EXCEPT ![d] = IdleDisc]
  /\ UNCHANGED <<now, faults, started, channels, channel_stats_logs, videos,
                 video_stats_logs, sched, info, vinfo>>

Discovery(d) == DiscBegin(d) \/ DiscList(d) \/ DiscUpsert(d) \/ DiscLog(d)
                  \/ DiscReturn(d)

(***************************************************************************)
(* POST /api/getChannelInfo  (on-demand channel refresh)                   *)
(***************************************************************************)
InfoProcs == {1, 2}

IdleInfo ==
  [pc |-> "idle", status |-> 0, shape |-> "none", searches |-> 0,
   directSearch |-> "none", nameSearch |-> "none",
   identifiedByMethod |-> "none", statistics |-> NoStatistics,
   channelRecordToUpsert |-> <<>>,
   savedOrUpdatedChannel |-> Null, logged |-> FALSE]

\* A path segment of a URL: its text class, whether it starts with '@' or
\* 'UC', and its length.
Part(text, at, uc, len) == [text |-> text, at |-> at, uc |-> uc, len |-> len]

\* The request bodies tried, as what the handler inspects of channelInput:
\* the channel it denotes and the string's shape.
Input(shape, c) ==
  LET str == [channel |-> c, shape |-> shape, isString |-> TRUE, blank |-> FALSE,
              slashOrDot |-> FALSE, parses |-> TRUE, at |-> FALSE, len |-> 12,
              pathParts |-> <<>>]
  IN  CASE shape = "channelUrl" ->      \* https://youtube.com/channel/UC...(24)
             [str EXCEPT !.slashOrDot = TRUE, !.pathParts =
                <<Part("channel", FALSE, FALSE, 7), Part("id", FALSE, TRUE, 24)>>]
        [] shape = "shortIdUrl" ->      \* https://youtube.com/channel/UC123
             [str EXCEPT !.slashOrDot = TRUE, !.pathParts =
                <<Part("channel", FALSE, FALSE, 7), Part("id", FALSE, TRUE, 5)>>]
        [] shape = "userUrl" ->         \* https://youtube.com/user/name
             [str EXCEPT !.slashOrDot = TRUE, !.pathParts =
                <<Part("user", FALSE, FALSE, 4), Part("name", FALSE, FALSE, 4)>>]
        [] shape = "handleUrl" ->       \* https://youtube.com/@handle
             [str EXCEPT !.slashOrDot = TRUE, !.pathParts =
                <<Part("name", TRUE, FALSE, 7)>>]
        [] shape = "rootUrl" ->         \* https://youtube.com/
             [str EXCEPT !.slashOrDot = TRUE]
        [] shape = "badUrl" ->          \* http://  (new URL throws)
             [str EXCEPT !.slashOrDot = TRUE, !.parses = FALSE]
        [] shape = "handle" ->          \* @handle
             [str EXCEPT !.at = TRUE, !.len = 7]
        [] shape = "rawId" ->           \* UC...(24)
             [str EXCEPT !.len = 24]
        [] shape = "name" ->            \* Some Channel Name
             [str EXCEPT !.len = 17]
        [] shape = "blank" ->           \* "" or "   "
             [str EXCEPT !.blank = TRUE, !.len = 0]
        [] OTHER ->                     \* absent, or not a string
             [str EXCEPT !.isString = FALSE]

Shapes == {"channelUrl", "shortIdUrl", "userUrl", "handleUrl", "rootUrl",
           "badUrl", "handle", "rawId", "name", "blank", "missing"}

\* What youtube.search.list may answer.
SearchOutcomes == {"hit", "empty", "throws"}
\* What youtube.channels.list may answer.
ListOutcomes == {"item", "none", "incomplete", "throws"}

\* An extraction that takes an @handle for a legacy user name and never
\* searches.
ExtractWithoutSearch(inputValue, search) ==
  LET none == [id |-> Null, forUsername |-> Null, error |-> TRUE, searches |-> 0]
      byName == [none EXCEPT !.forUsername = inputValue.channel, !.error = FALSE]
      pathParts == inputValue.pathParts
  IN  IF inputValue.slashOrDot
        THEN IF ~inputValue.parses THEN none
             ELSE IF Len(pathParts) = 0 THEN none
             ELSE IF /\ pathParts[1].text = "channel" /\ Len(pathParts) >= 2
                     /\ pathParts[2].uc /\ pathParts[2].len = 24
                    THEN [none EXCEPT !.id = inputValue.channel, !.error = FALSE]
             ELSE byName
      ELSE IF inputValue.at /\ inputValue.len > 1 THEN byName
      ELSE none

\* extractDirectIdentifier(inputValue); `search` is the outcome of the one
\* search.list call it may make.
ExtractDirectIdentifier(inputValue, search) ==
  LET none == [id |-> Null, forUsername |-> Null, error |-> TRUE, searches |-> 0]
      byHandle == IF search = "hit"
                    THEN [none EXCEPT !.id = inputValue.channel,
                                      !.error = FALSE, !.searches = 1]
                    ELSE [none EXCEPT !.searches = 1]
      pathParts == inputValue.pathParts
      lastPart == pathParts[Len(pathParts)]
  IN  IF inputValue.slashOrDot
        THEN IF ~inputValue.parses THEN none
             ELSE IF Len(pathParts) = 0 THEN none
             ELSE IF /\ pathParts[1].text = "channel" /\ Len(pathParts) >= 2
                     /\ pathParts[2].uc /\ pathParts[2].len = 24
                    THEN [none EXCEPT !.id = inputValue.channel, !.error = FALSE]
             ELSE IF pathParts[1].text = "user" /\ Len(pathParts) >= 2
                    THEN [none EXCEPT !.forUsername = inputValue.channel,
                                      !.error = FALSE]
             ELSE IF lastPart.at /\ lastPart.len > 1 THEN byHandle
             ELSE [none EXCEPT !.forUsername = inputValue.channel,
                               !.error = FALSE]
      ELSE IF inputValue.at /\ inputValue.len > 1 THEN byHandle
      ELSE none

\* statistics of a channel as channels.list returns them.
ChannelStatChoices ==
  << [subscriberCount |-> <<1, 0>>, videoCount |-> <<2>>, viewCount |-> <<9, 0>>],
     [subscriberCount |-> <<1, 1>>, videoCount |-> <<2>>, viewCount |-> <<>>] >>
RawChannelStats(c, t) ==
  ChannelStatChoices[(((c + t) \div 2) % Len(ChannelStatChoices)) + 1]

ChannelRecordToUpsert(c, statistics, nowISO) ==
  [youtube_channel_id |-> c,
   subscriber_count |-> CountOf(statistics, "subscriberCount"),
   video_count |-> CountOf(statistics, "videoCount"),
   total_view_count |-> CountOf(statistics, "viewCount"),
   uploads_playlist_id |-> c,
   last_fetched_at |-> nowISO]

StatsLogToInsert(channel_id, statistics, nowISO) ==
  [channel_id |-> channel_id, created_at |-> nowISO,
   subscriber_count |-> CountOf(statistics, "subscriberCount"),
   video_count |-> CountOf(statistics, "videoCount"),
   total_view_count |-> CountOf(statistics, "viewCount")]

\* A handler for which a direct extraction that searched is final, found
\* or not.
DirectOrSearched(direct) ==
  \/ ~direct.error /\ (direct.id # Null \/ direct.forUsername # Null)
  \/ direct.searches = 1

\* directIdentifierResult && !error && (id || forUsername): the direct
\* extraction has identified the channel; otherwise the name search is next.
IdentifiedDirectly(direct) ==
  ~direct.error /\ (direct.id # Null \/ direct.forUsername # Null)

\* Validation, identifier resolution and channels.list: everything up to
\* the first store call.
InfoResolve(r) ==
  /\ info[r].pc = "idle"
  /\ started.info < MaxInfoRequests
  /\ \E shape \in Shapes : \E c \in ChannelIds :
       LET channelInput == Input(shape, c)
           base == [IdleInfo EXCEPT !.shape = shape]
           calls == ExtractDirectIdentifier(channelInput, "hit").searches
       IN  IF ~channelInput.isString \/ channelInput.blank
             THEN /\ info' = [info EXCEPT ![r] =
                                [base EXCEPT !.pc = "done", !.status = 400]]
                  /\ started' = [started EXCEPT !.info = @ + 1]
                  /\ UNCHANGED faults
             ELSE \E search \in IF calls = 1 THEN SearchOutcomes ELSE {"hit"} :
                  LET direct == ExtractDirectIdentifier(channelInput, search)
                      named == IdentifiedDirectly(direct)
                      searches == direct.searches + (IF named THEN 0 ELSE 1)
                      method(nameSearch) ==
                        IF named THEN "direct"
                        ELSE IF nameSearch = "hit" THEN "search_by_name"
                        ELSE "none"
                      end(status, by) ==
                        [base EXCEPT !.pc = "done", !.status = status,
                                     !.searches = searches,
                                     !.directSearch =
                                        IF direct.searches = 1 THEN search
                                        ELSE "none",
                                     !.identifiedByMethod = by]
                  IN  \E nameSearch \in IF named THEN {"hit"} ELSE SearchOutcomes :
                      \E list \in IF nameSearch = "hit" THEN ListOutcomes
                                  ELSE {"item"} :
                        LET cost == (IF search # "hit" THEN 1 ELSE 0)
                                    + (IF nameSearch # "hit" THEN 1 ELSE 0)
                                    + (IF list # "item" THEN 1 ELSE 0)
                        IN  /\ faults >= cost
                            /\ faults' = faults - cost
                            /\ started' = [started EXCEPT
                                 !.info = @ + 1,
                                 !.infoFetched =
                                    IF nameSearch = "hit" /\ list = "item"
                                      THEN @ + 1 ELSE @]
                            /\ info' = [info EXCEPT ![r] =
                                 CASE nameSearch = "empty" ->
                                        [end(404, "none") EXCEPT
                                           !.nameSearch = "empty"]
                                   [] nameSearch = "throws" ->
                                        [end(500, "none") EXCEPT
                                           !.nameSearch = "throws"]
                                   [] list = "none" ->
                                        [end(404, method(nameSearch)) EXCEPT
                                           !.nameSearch =
                                              IF named THEN "none" ELSE "hit"]
                                   [] list \in {"incomplete", "throws"} ->
                                        [end(500, method(nameSearch)) EXCEPT
                                           !.nameSearch =
                                              IF named THEN "none" ELSE "hit"]
                                   [] OTHER ->
                                      [base EXCEPT
                                         !.pc = "upsert", !.searches = searches,
                                         !.directSearch =
                                            IF direct.searches = 1 THEN search
                                            ELSE "none",
                                         !.nameSearch =
                                            IF named THEN "none" ELSE nameSearch,
                                         !.identifiedByMethod =
                                            method(nameSearch),
                                         !.statistics = RawChannelStats(c, now),
                                         !.channelRecordToUpsert =
                                            ChannelRecordToUpsert(
                                              c, RawChannelStats(c, now), now)]]
  /\ UNCHANGED <<now, channels, channel_stats_logs, videos, video_stats_logs,
                 sched, disc, vinfo>>

\* A plain insert: a channel that is already stored gets a second row.
UpsertChannelAppending(table, rec) ==
  LET slot == IF rec.youtube_channel_id \in DOMAIN table
                THEN rec.youtube_channel_id + Cardinality(DOMAIN table)
                ELSE rec.youtube_channel_id
  IN  [c \in DOMAIN table \cup {slot} |-> IF c = slot THEN rec ELSE table[c]]

\* upsert(channelRecordToUpsert, { onConflict: 'youtube_channel_id' })
UpsertChannel(table, rec) ==
  [c \in DOMAIN table \cup {rec.youtube_channel_id} |->
     IF c = rec.youtube_channel_id THEN rec ELSE table[c]]

\* A handler that only logs an upsert error and goes on to the log insert.
InfoUpsertOrContinue(r) ==
  /\ info[r].pc = "upsert"
  /\ \/ /\ faults > 0
        /\ faults' = faults - 1
        /\ info' = [info EXCEPT ![r].pc = "log"]
        /\ UNCHANGED channels
     \/ /\ UNCHANGED faults
        /\ channels' = UpsertChannel(channels, info[r].channelRecordToUpsert)
        /\ info' = [info EXCEPT
             ![r].pc = "log",
             ![r].savedOrUpdatedChannel =
                info[r].channelRecordToUpsert.youtube_channel_id]
  /\ UNCHANGED <<now, started, channel_stats_logs, videos, video_stats_logs, sched, disc, vinfo>>

InfoUpsert(r) ==
  /\ info[r].pc = "upsert"
  /\ \/ /\ faults > 0                       \* upsertError: 500
        /\ faults' = faults - 1
        /\ info' = [info EXCEPT ![r].pc = "done", ![r].status = 500]
        /\ UNCHANGED channels
     \/ /\ UNCHANGED faults
        /\ channels' = UpsertChannel(channels, info[r].channelRecordToUpsert)
        /\ info' = [info EXCEPT
             ![r].pc = "log",
             ![r].savedOrUpdatedChannel =
                info[r].channelRecordToUpsert.youtube_channel_id]
  /\ UNCHANGED <<now, started, channel_stats_logs, videos, video_stats_logs, sched, disc, vinfo>>

\* supabase.from('channel_stats_logs').insert(statsLogToInsert)
InfoLog(r) ==
  /\ info[r].pc = "log"
  /\ LET statsLogToInsert ==
           StatsLogToInsert(info[r].savedOrUpdatedChannel, info[r].statistics,
                            info[r].channelRecordToUpsert.last_fetched_at)
     IN  \/ /\ faults > 0                   \* statsLogError: logged only
            /\ faults' = faults - 1
            /\ UNCHANGED <<channel_stats_logs, started>>
            /\ info' = [info EXCEPT ![r].pc = "done", ![r].status = 200]
         \/ /\ UNCHANGED faults
            /\ channel_stats_logs' =
                 InsertInto(channel_stats_logs, <<statsLogToInsert>>)
            /\ started' = [started EXCEPT !.infoLogged = @ + 1]
            /\ info' = [info EXCEPT ![r].pc = "done", ![r].status = 200,
                                    ![r].logged = TRUE]
  /\ UNCHANGED <<now, channels, videos, video_stats_logs, sched, disc, vinfo>>

InfoReturn(r) ==
  /\ info[r].pc = "done"
  /\ info' = [info EXCEPT ![r] = IdleInfo]
  /\ UNCHANGED <<now, faults, started, channels, channel_stats_logs, videos,
                 video_stats_logs, sched, disc, vinfo>>

ChannelInfo(r) == InfoResolve(r) \/ InfoUpsert(r) \/ InfoLog(r) \/ InfoReturn(r)

(***************************************************************************)
(* POST /api/getVideoInfo  (on-demand video lookup, nothing is stored)     *)
(***************************************************************************)
IdleVideoInfo ==
  [pc |-> "idle", status |-> 0, input |-> "none", videoId |-> Null, apiCalls |-> 0]

VideoIdsAsked == {1}

\* A parsed URL: its host, its path up to the place of the id, and the id
\* found there (Null when that place is empty or the parameter is missing).
VideoUrls ==
  [parses : {TRUE}, hostname : {"youtu.be", "www.youtube.com", "example.com"},
   pathname : {"/", "/watch", "/embed/", "/shorts/", "/playlist"},
   id : VideoIdsAsked \cup {Null}]
    \cup {[parses |-> FALSE, hostname |-> "", pathname |-> "", id |-> Null]}

\* The id that pathname.slice(1) makes of a longer youtu.be path.
PathAsId == 2

\* extractVideoId: Null stands for null and for the empty string, which the
\* caller tests alike.
ExtractVideoId(url) ==
  IF ~url.parses THEN Null
  ELSE IF url.hostname = "youtu.be"
         THEN (IF url.pathname = "/" THEN url.id ELSE PathAsId)
  ELSE IF url.hostname = "www.youtube.com"
         THEN (IF url.pathname \in {"/watch", "/embed/", "/shorts/"}
                 THEN url.id ELSE Null)
  ELSE Null

\* What a request body may carry as youtubeUrl.
VideoInputs ==
  {[kind |-> k, url |-> CHOOSE u \in VideoUrls : ~u.parses] :
     k \in {"absent", "empty", "notString"}}
    \cup {[kind |-> "url", url |-> u] : u \in VideoUrls}

\* Validation of the body and of the URL.
VideoInfoBegin ==
  /\ vinfo.pc = "idle"
  /\ \E body \in VideoInputs :
       LET base == [IdleVideoInfo EXCEPT
                      !.input = IF body.kind # "url" THEN body.kind
                                ELSE IF ExtractVideoId(body.url) = Null
                                       THEN "urlWithoutId" ELSE "url"]
           videoId == ExtractVideoId(body.url)
       IN  vinfo' = IF body.kind # "url" \/ videoId = Null
                      THEN [base EXCEPT !.pc = "done", !.status = 400]
                      ELSE [base EXCEPT !.pc = "list", !.videoId = videoId]
  /\ UNCHANGED <<now, faults, started, channels, channel_stats_logs, videos,
                 video_stats_logs, sched, disc, info>>

\* youtube.videos.list for the one id.
VideoInfoList ==
  /\ vinfo.pc = "list"
  /\ \/ /\ faults > 0                       \* the call throws: caught, 500
        /\ faults' = faults - 1
        /\ vinfo' = [vinfo EXCEPT !.pc = "done", !.status = 500, !.apiCalls = 1]
     \/ /\ UNCHANGED faults
        /\ \E found \in BOOLEAN :
             vinfo' = [vinfo EXCEPT !.pc = "done", !.apiCalls = 1,
                                    !.status = IF found THEN 200 ELSE 404]
  /\ UNCHANGED <<now, started, channels, channel_stats_logs, videos,
                 video_stats_logs, sched, disc, info>>

VideoInfoReturn ==
  /\ vinfo.pc = "done"
  /\ vinfo' = IdleVideoInfo
  /\ UNCHANGED <<now, faults, started, channels, channel_stats_logs, videos,
                 video_stats_logs, sched, disc, info>>

VideoInfo == VideoInfoBegin \/ VideoInfoList \/ VideoInfoReturn

(***************************************************************************)
(* The clock.                                                              *)
(***************************************************************************)
Tick ==
  /\ now < MaxTime
  /\ now' = now + 1
  /\ UNCHANGED <<faults, started, channels, channel_stats_logs, videos, video_stats_logs,
                 sched, disc, info, vinfo>>

(***************************************************************************)
(* SpecPass: one scheduler process over a videos table that earlier        *)
(* discovery requests have filled with up to MaxDue rows.                  *)
(***************************************************************************)
PassSizes == {0, 1, 2, BatchSize, BatchSize + 1, MaxDue}

\* A row as discovery at hour `at` leaves it.
DiscoveredRow(v, at) ==
  [published_at |-> PublishedAtOf(v), next_stat_fetch_at |-> at + 1,
   stat_fetch_frequency_hours |-> 1, last_stat_logged_at |-> at,
   view_count |-> Null, like_count |-> Null, comment_count |-> Null]

InitPass ==
  /\ now \in {1, 2}
  /\ started = NoneStarted
  /\ channels = <<>>
  /\ channel_stats_logs = EmptyBag
  /\ \E n \in PassSizes : \E late \in BOOLEAN :
       /\ faults \in 0 .. (IF n <= 2 THEN 2 ELSE 1)
       /\ videos = [v \in 1 .. n |->
                      DiscoveredRow(v, IF late /\ v = n THEN MaxTime ELSE 0)]
  /\ video_stats_logs = EmptyBag
  /\ sched = [p \in Procs |-> IdlePass]
  /\ disc = [d \in DiscProcs |-> IdleDisc]
  /\ info = [r \in InfoProcs |-> IdleInfo]
  /\ vinfo = IdleVideoInfo

NextPass == Pass(1)

SpecPass == InitPass /\ [][NextPass]_vars

(***************************************************************************)
(* SpecMemory: one scheduler pass over videos that were published at the   *)
(* same hour and have different histories: one as discovery left it, the   *)
(* others as earlier passes left them.                                     *)
(***************************************************************************)
\* Hours at which an earlier pass refreshed a row.
PastPassTimes == {-40, -30, -20}

\* Videos with the same snippet.publishedAt.
Twins == {{2, 7}, {4, 9}, {2, 7, 12}, {3, 8}}

\* A row as a pass that started at hour t0 left it.
RefreshedRow(v, t0) ==
  ApplyScheduleUpdate(
    DiscoveredRow(v, t0 - 1),
    ScheduleUpdateOf([id |-> v, published_at |-> PublishedAtOf(v),
                      stat_fetch_frequency_hours |-> 1],
                     t0, t0, RawStats(v, t0)))

InitMemory ==
  /\ now \in {1, 2}
  /\ faults \in 0 .. MaxFaults
  /\ started = NoneStarted
  /\ channels = <<>>
  /\ channel_stats_logs = EmptyBag
  /\ \E ids \in Twins : \E t0 \in PastPassTimes :
       LET first == CHOOSE v \in ids : \A w \in ids : v <= w
       IN  videos = [v \in ids |->
                       IF v = first THEN DiscoveredRow(v, 0)
                       ELSE RefreshedRow(v, t0 - v)]
  /\ video_stats_logs = EmptyBag
  /\ sched = [p \in Procs |-> IdlePass]
  /\ disc = [d \in DiscProcs |-> IdleDisc]
  /\ info = [r \in InfoProcs |-> IdleInfo]
  /\ vinfo = IdleVideoInfo

SpecMemory == InitMemory /\ [][NextPass]_vars

(***************************************************************************)
(* SpecRetry: the scheduler invoked again and again by its outside trigger *)
(* over a small videos table, with a bounded number of failures.  Every    *)
(* invocation that can start does start, and every started invocation runs *)
(* on; the clock may stop.                                                 *)
(***************************************************************************)
RetrySizes == {1, 2}

InitRetry ==
  /\ now = 1
  /\ faults \in 0 .. MaxFaults + 1
  /\ started = NoneStarted
  /\ channels = <<>>
  /\ channel_stats_logs = EmptyBag
  /\ \E n \in RetrySizes : videos = [v \in 1 .. n |-> DiscoveredRow(v, 0)]
  /\ video_stats_logs = EmptyBag
  /\ sched = [p \in Procs |-> IdlePass]
  /\ disc = [d \in DiscProcs |-> IdleDisc]
  /\ info = [r \in InfoProcs |-> IdleInfo]
  /\ vinfo = IdleVideoInfo

Invocation ==
  PassStart(1) \/ PassSelect(1) \/ FetchBatch(1) \/ InsertLogs(1)
    \/ UpdateSchedule(1) \/ PassReturn(1)

NextRetry == Tick \/ Invocation

SpecRetry == InitRetry /\ [][NextRetry]_vars /\ WF_vars(Invocation)

(***************************************************************************)
(* SpecTrack: the life of discovered videos over several hours.  The clock *)
(* advances up to the horizon, the outside trigger keeps invoking the      *)
(* scheduler, and the number of failures is bounded.                       *)
(***************************************************************************)
TrackHorizon == 5

Hour ==
  /\ now < TrackHorizon
  /\ now' = now + 1
  /\ UNCHANGED <<faults, started, channels, channel_stats_logs, videos, video_stats_logs,
                 sched, disc, info, vinfo>>

InitTrack ==
  /\ now = 0
  /\ faults \in 0 .. MaxFaults
  /\ started = NoneStarted
  /\ channels = <<>>
  /\ channel_stats_logs = EmptyBag
  /\ \E n \in RetrySizes : videos = [v \in 1 .. n |-> DiscoveredRow(v, 0)]
  /\ video_stats_logs = EmptyBag
  /\ sched = [p \in Procs |-> IdlePass]
  /\ disc = [d \in DiscProcs |-> IdleDisc]
  /\ info = [r \in InfoProcs |-> IdleInfo]
  /\ vinfo = IdleVideoInfo

NextTrack == Hour \/ Invocation

SpecTrack ==
  InitTrack /\ [][NextTrack]_vars /\ WF_vars(Hour) /\ WF_vars(Invocation)

(***************************************************************************)
(* Spec: every handler, one request at a time, from an empty store.        *)
(***************************************************************************)
Init ==
  /\ now = 0
  /\ faults = MaxFaults
  /\ started = NoneStarted
  /\ channels = <<>>
  /\ channel_stats_logs = EmptyBag
  /\ videos = <<>>
  /\ video_stats_logs = EmptyBag
  /\ sched = [p \in Procs |-> IdlePass]
  /\ disc = [d \in DiscProcs |-> IdleDisc]
  /\ info = [r \in InfoProcs |-> IdleInfo]
  /\ vinfo = IdleVideoInfo

SchedQuiet == \A p \in Procs : sched[p].pc = "idle"
DiscQuiet == \A d \in DiscProcs : disc[d].pc = "idle"
InfoQuiet == \A r \in InfoProcs : info[r].pc = "idle"
VideoQuiet == vinfo.pc = "idle"

Next ==
  \/ Tick
  \/ DiscQuiet /\ InfoQuiet /\ VideoQuiet /\ Pass(1)
  \/ SchedQuiet /\ InfoQuiet /\ VideoQuiet /\ Discovery(1)
  \/ SchedQuiet /\ DiscQuiet /\ VideoQuiet /\ ChannelInfo(1)
  \/ SchedQuiet /\ DiscQuiet /\ InfoQuiet /\ VideoInfo

Spec == Init /\ [][Next]_vars

(***************************************************************************)
(* SpecSched: overlapping scheduler invocations and discovery requests for *)
(* a channel that a getChannelInfo request at hour 0 has registered.       *)
(***************************************************************************)
InitSched ==
  /\ now = 0
  /\ faults = MaxFaults
  /\ started = NoneStarted
  /\ channels = UpsertChannel(<<>>, ChannelRecordToUpsert(1, RawChannelStats(1, 0), 0))
  /\ channel_stats_logs = SetToBag({StatsLogToInsert(1, RawChannelStats(1, 0), 0)})
  /\ videos = <<>>
  /\ video_stats_logs = EmptyBag
  /\ sched = [p \in Procs |-> IdlePass]
  /\ disc = [d \in DiscProcs |-> IdleDisc]
  /\ info = [r \in InfoProcs |-> IdleInfo]
  /\ vinfo = IdleVideoInfo

NextSched ==
  \/ Tick
  \/ \E p \in Procs : Pass(p)
  \/ \E d \in DiscProcs : Discovery(d)

SpecSched == InitSched /\ [][NextSched]_vars

(***************************************************************************)
(* SpecInfo: overlapping getChannelInfo requests on an empty store.        *)
(***************************************************************************)
NextInfo ==
  \/ Tick
  \/ \E r \in InfoProcs : ChannelInfo(r)

SpecInfo == Init /\ [][NextInfo]_vars

(***************************************************************************)
(* Properties.                                                             *)
(***************************************************************************)
UpdateIds(s) ==
  {s.videoScheduleUpdates[j].id : j \in 1 .. Len(s.videoScheduleUpdates)}

LogRowsFor(s, v) ==
  {j \in 1 .. Len(s.videoStatsLogsToInsert) :
     s.videoStatsLogsToInsert[j].video_id = v}

Copies(table, r) == IF BagIn(r, table) THEN table[r] ELSE 0

\* C1: whatever a scheduler pass does, it leaves every video row either
\* unchanged or with a non-null next_stat_fetch_at strictly greater than
\* the value the row had when the pass selected it; it never lowers the
\* value and never sets it to null.
C1_PassRaisesNextFetchOrLeavesRow ==
  [][\A p \in Procs : sched'[p] # sched[p] =>
       /\ DOMAIN videos' = DOMAIN videos
       /\ \A v \in DOMAIN videos :
            \/ videos'[v] = videos[v]
            \/ /\ videos'[v].next_stat_fetch_at # Null
               /\ \E j \in 1 .. Len(sched[p].videosToUpdate) :
                    /\ sched[p].videosToUpdate[j].id = v
                    /\ videos'[v].next_stat_fetch_at > sched[p].dueAt[j]]_vars

\* A completed pass that advanced one selected row and left another as it
\* found it.
C1_Witness ==
  \E p \in Procs :
    /\ sched[p].pc = "done" /\ sched[p].status = 200
    /\ \E j, k \in 1 .. Len(sched[p].videosToUpdate) :
         LET a == sched[p].videosToUpdate[j].id
             b == sched[p].videosToUpdate[k].id
         IN  /\ a \in sched[p].updated
             /\ videos[a].next_stat_fetch_at > sched[p].dueAt[j]
             /\ b \in sched[p].failed \cup sched[p].unmatched
             /\ videos[b].next_stat_fetch_at = sched[p].dueAt[k]

\* C2: in every reachable state, whatever discovery requests, scheduler
\* passes and failures came before, every video row in the store has a
\* non-null next_stat_fetch_at.
C2_NextFetchNeverNull ==
  \A v \in DOMAIN videos : videos[v].next_stat_fetch_at # Null

\* The store holds every discovered video, a failure has happened, and a
\* pass has rescheduled a row.
C2_Witness ==
  /\ Cardinality(DOMAIN videos) >= 2
  /\ faults < MaxFaults
  /\ \E p \in Procs : sched[p].updated # {}

\* C3: for a refreshed video with h = (pass start time - published_at) in
\* hours, the pass schedules the next fetch 1 hour after its start when
\* h <= 24, 3 hours after when 24 < h <= 72, and 24 hours after otherwise,
\* and records that interval; h = 24 gives 1 and h = 72 gives 3.
C3_IntervalPolicy ==
  \A p \in Procs : \A j \in 1 .. Len(sched[p].videoScheduleUpdates) :
    LET update == sched[p].videoScheduleUpdates[j]
        published_at == RowFor(sched[p].videosToUpdate, update.id).published_at
        h == sched[p].currentTime - published_at
        interval == update.next_stat_fetch_at - sched[p].currentTime
    IN  published_at # Null =>
          /\ update.stat_fetch_frequency_hours = interval
          /\ h <= 24 => interval = 1
          /\ (24 < h /\ h <= 72) => interval = 3
          /\ h > 72 => interval = 24

\* One pass that refreshed a video aged exactly 24 hours, one aged exactly
\* 72 hours and one older than that.
C3_Witness ==
  \E p \in Procs : \E j, k, l \in 1 .. Len(sched[p].videoScheduleUpdates) :
    LET s == sched[p]
        age(u) == s.currentTime - RowFor(s.videosToUpdate, u.id).published_at
        pub(u) == RowFor(s.videosToUpdate, u.id).published_at
        uj == s.videoScheduleUpdates[j]
        uk == s.videoScheduleUpdates[k]
        ul == s.videoScheduleUpdates[l]
    IN  /\ pub(uj) # Null /\ age(uj) = 24 /\ uj.stat_fetch_frequency_hours = 1
        /\ pub(uk) # Null /\ age(uk) = 72 /\ uk.stat_fetch_frequency_hours = 3
        /\ pub(ul) # Null /\ age(ul) > 72 /\ ul.stat_fetch_frequency_hours = 24

\* C4: a pass's log insert appends exactly one video_stats_logs row for
\* each video it refreshes and none for any other, and the counts the pass
\* writes to a video row are the counts of that video's log row.
C4_OneLogRowWithCachedCounts ==
  [][\A p \in Procs :
       LET s == sched[p]
       IN  /\ (s.pc = "insert" /\ sched'[p].logInsert = "ok") =>
                /\ \A v \in UpdateIds(s) : Cardinality(LogRowsFor(s, v)) = 1
                /\ Len(s.videoStatsLogsToInsert) = Cardinality(UpdateIds(s))
                /\ \A r \in BagToSet(video_stats_logs') :
                     Copies(video_stats_logs', r) - Copies(video_stats_logs, r)
                       = Cardinality({j \in 1 .. Len(s.videoStatsLogsToInsert) :
                                        s.videoStatsLogsToInsert[j] = r})
           /\ \A v \in sched'[p].updated \ s.updated :
                \E j \in LogRowsFor(s, v) :
                  LET row == s.videoStatsLogsToInsert[j]
                  IN  /\ videos'[v].view_count = row.view_count
                      /\ videos'[v].like_count = row.like_count
                      /\ videos'[v].comment_count = row.comment_count]_vars

\* A pass that inserted its log rows and refreshed a video whose row now
\* carries the parsed counts of its log row, one of them missing.
C4_Witness ==
  \E p \in Procs : \E v \in sched[p].updated : \E j \in LogRowsFor(sched[p], v) :
    LET row == sched[p].videoStatsLogsToInsert[j]
    IN  /\ sched[p].pc = "done" /\ sched[p].logInsert = "ok"
        /\ BagIn(row, video_stats_logs)
        /\ videos[v].view_count = row.view_count /\ row.view_count = 12
        /\ videos[v].like_count = row.like_count /\ row.like_count = 0
        /\ videos[v].comment_count = row.comment_count
        /\ row.comment_count = Null

\* C5 as stated: once its requests have returned, channel_stats_logs holds
\* exactly one row for every getChannelInfo request that resolved its input
\* and fetched the channel.
C5_OneRowPerFetchingRequest ==
  InfoQuiet => BagCardinality(channel_stats_logs) = started.infoFetched

\* C5: every getChannelInfo request that resolves, fetches the channel,
\* upserts the channel row and whose log insert succeeds appends exactly
\* one channel_stats_logs row, and a request that stops earlier appends
\* none: k such requests make k rows, equal rows included.
C5_OneRowPerLoggedRequest ==
  /\ BagCardinality(channel_stats_logs) = started.infoLogged
  /\ started.infoLogged <= started.infoFetched
  /\ \A r \in InfoProcs :
       info[r].pc = "done" =>
         (info[r].logged =>
            /\ info[r].status = 200
            /\ BagIn(StatsLogToInsert(info[r].savedOrUpdatedChannel,
                                      info[r].statistics,
                                      info[r].channelRecordToUpsert.last_fetched_at),
                     channel_stats_logs))

\* Two requests for the same channel within the hour fetched the same
\* counts, and the table holds the same row twice.
C5_Witness ==
  /\ started.infoLogged = 2
  /\ \E r \in BagToSet(channel_stats_logs) : channel_stats_logs[r] = 2

\* C6 as stated: a pass that selected N due videos and is past its fetch
\* loop has issued exactly ceil(N/50) videos.list calls, each with at most
\* 50 ids, and every selected id is in exactly one of them.
C6_CeilBatches ==
  \A p \in Procs :
    LET s == sched[p]
        N == Len(s.videosToUpdate)
    IN  (s.pc \in {"insert", "update", "done"} /\ N > 0) =>
          /\ Len(s.calls) = (N + BatchSize - 1) \div BatchSize
          /\ \A c \in 1 .. Len(s.calls) : Len(s.calls[c]) <= BatchSize
          /\ \A j \in 1 .. N :
               Cardinality({c \in 1 .. Len(s.calls) :
                              s.videosToUpdate[j].id \in Range(s.calls[c])}) = 1

\* C7: no step of any endpoint modifies or removes a row of
\* channel_stats_logs or video_stats_logs; each table only gains rows.
C7_LogsAppendOnly ==
  [][/\ video_stats_logs \sqsubseteq video_stats_logs'
     /\ channel_stats_logs \sqsubseteq channel_stats_logs']_vars

\* Every endpoint has written its log rows: discovery and a scheduler pass
\* for the same video, a channel refresh for the channel.
C7_Witness ==
  /\ BagCardinality(channel_stats_logs) >= 1
  /\ \E r1, r2 \in BagToSet(video_stats_logs) :
       r1.video_id = r2.video_id /\ r1.fetched_at < r2.fetched_at

\* C8: a pass writes no log row for a selected video whose batch response
\* had no item, or an item without statistics, for it, and changes no field
\* of its row, which therefore stays due.
C8_UnmatchedSkipped ==
  [][\A p \in Procs : sched'[p] # sched[p] =>
       \A v \in sched'[p].unmatched :
         /\ v \in DOMAIN videos /\ videos'[v] = videos[v]
         /\ \A r \in BagToSet(video_stats_logs') :
              r.video_id = v =>
                Copies(video_stats_logs', r) = Copies(video_stats_logs, r)
         /\ v \notin UpdateIds(sched'[p])
         /\ LogRowsFor(sched'[p], v) = {}]_vars

\* A completed pass refreshed one video and skipped another, which has no
\* log row and is as due as it was.
C8_Witness ==
  \E p \in Procs : \E v \in sched[p].unmatched :
    /\ sched[p].pc = "done" /\ sched[p].status = 200
    /\ sched[p].updated # {}
    /\ Lte(videos[v].next_stat_fetch_at, sched[p].currentTime)
    /\ \A r \in BagToSet(video_stats_logs) : r.video_id # v

\* C9: a pass whose log insert failed still attempts every schedule update;
\* a pass in which a schedule update failed keeps the log rows it inserted
\* and still attempts the remaining updates.
C9_InsertAndUpdatesIndependent ==
  \A p \in Procs :
    LET s == sched[p]
    IN  /\ s.logInsert = "failed" => s.pc \in {"update", "done"}
        /\ (s.logInsert # "none" /\ s.pc = "done") =>
             /\ s.k = Len(s.videoScheduleUpdates)
             /\ s.updated \cup s.failed = UpdateIds(s)
             /\ s.status = 200
        /\ (s.logInsert = "ok" /\ s.pc \in {"update", "done"}) =>
             BagOfSeq(s.videoStatsLogsToInsert) \sqsubseteq video_stats_logs
        /\ \A v \in s.updated :
             videos[v].next_stat_fetch_at > s.currentTime

\* The log insert failed, then the first schedule update failed, and the
\* second video was rescheduled all the same.
C9_Witness ==
  \E p \in Procs :
    /\ sched[p].pc = "done" /\ sched[p].logInsert = "failed"
    /\ Len(sched[p].videoScheduleUpdates) = 2
    /\ sched[p].failed = {sched[p].videoScheduleUpdates[1].id}
    /\ sched[p].updated = {sched[p].videoScheduleUpdates[2].id}

\* C10 as stated: when a pass ends, every batch of its selection has been
\* fetched, and the videos of the batches that were answered have had their
\* log insert and their schedule updates attempted.
C10_FailedBatchDoesNotAbort ==
  \A p \in Procs :
    LET s == sched[p]
        N == Len(s.videosToUpdate)
    IN  (s.pc = "done" /\ N > 0) =>
          /\ \A b \in 1 .. ((N + BatchSize - 1) \div BatchSize) :
               b <= Len(s.calls)
          /\ UpdateIds(s) # {} =>
               /\ s.logInsert # "none"
               /\ s.updated \cup s.failed = UpdateIds(s)

\* C11: a getChannelInfo request whose channel upsert fails or returns no
\* row ends with an error response and never reaches the log insert; a
\* channel_stats_logs row is inserted only by a request that has upserted
\* the channel row before.
C11_NoLogWithoutUpsert ==
  [][\A r \in InfoProcs :
       /\ (/\ info[r].pc = "upsert" /\ info'[r] # info[r]
           /\ info'[r].savedOrUpdatedChannel = Null) =>
            /\ info'[r].pc = "done" /\ info'[r].status = 500
            /\ channel_stats_logs' = channel_stats_logs
            /\ channels' = channels
       /\ info'[r].pc = "log" => info'[r].savedOrUpdatedChannel # Null
       /\ (info'[r] # info[r] /\ channel_stats_logs' # channel_stats_logs) =>
            /\ info[r].pc = "log"
            /\ info[r].savedOrUpdatedChannel \in DOMAIN channels
            /\ channels[info[r].savedOrUpdatedChannel]
                 = info[r].channelRecordToUpsert]_vars

\* A request fetched the channel, its upsert failed, and it ended with 500
\* without a log row.
C11_Witness ==
  \E r \in InfoProcs :
    /\ info[r].pc = "done" /\ info[r].status = 500
    /\ info[r].statistics # NoStatistics
    /\ info[r].savedOrUpdatedChannel = Null
    /\ ~info[r].logged
    /\ channel_stats_logs = EmptyBag

\* C12: a discovery request stamps every video it saves with
\* next_stat_fetch_at = discovery time + 1 hour and an interval of 1 hour,
\* whatever the video's published_at is, and its upsert stores exactly
\* that.
C12_DiscoverySchedulesOneHourAhead ==
  [][\A d \in DiscProcs :
       /\ (disc[d].pc = "list" /\ disc'[d].pc = "upsert") =>
            \A j \in 1 .. Len(disc'[d].rows) :
              /\ disc'[d].rows[j].next_stat_fetch_at = now + 1
              /\ disc'[d].rows[j].last_stat_logged_at = now
              /\ disc'[d].rows[j].stat_fetch_frequency_hours = 1
       /\ (disc[d].pc = "upsert" /\ disc'[d].pc # "upsert"
           /\ disc'[d].status # 500) =>
            \A j \in 1 .. Len(disc[d].rows) :
              LET row == videos'[disc[d].rows[j].youtube_video_id]
              IN  /\ row.next_stat_fetch_at
                       = disc[d].rows[j].last_stat_logged_at + 1
                  /\ row.stat_fetch_frequency_hours = 1]_vars

\* A video older than 72 hours was discovered and is due one hour after
\* its discovery.
C12_Witness ==
  \E d \in DiscProcs : \E j \in 1 .. Len(disc[d].rows) :
    LET r == disc[d].rows[j]
        row == videos[r.youtube_video_id]
    IN  /\ disc[d].pc = "done" /\ disc[d].status = 200
        /\ r.published_at # Null
        /\ r.last_stat_logged_at - r.published_at > 72
        /\ row.next_stat_fetch_at = r.last_stat_logged_at + 1
        /\ row.stat_fetch_frequency_hours = 1

LogCount(v) ==
  LET rows == {r \in BagToSet(video_stats_logs) : r.video_id = v}
  IN  BagCardinality([r \in rows |-> video_stats_logs[r]])

\* C13: a pass selects every row that is due at its start, the rows another
\* invocation in flight has selected included, and when two overlapping
\* invocations have both inserted a log row for the same video the table
\* holds two rows for it: nothing locks, claims or deduplicates.
C13_OverlappingPassesDuplicate ==
  [][/\ \A p \in Procs :
          (sched[p].pc = "select" /\ sched'[p].pc \in {"fetch", "done"}
           /\ sched'[p].status # 500) =>
            {sched'[p].videosToUpdate[j].id :
               j \in 1 .. Len(sched'[p].videosToUpdate)}
              = {v \in DOMAIN videos :
                   /\ videos[v].next_stat_fetch_at # Null
                   /\ videos[v].next_stat_fetch_at <= sched[p].currentTime}
     /\ \A p, q \in Procs : \A v \in UpdateIds(sched'[p]) \cap UpdateIds(sched'[q]) :
          (p # q /\ sched'[p].logInsert = "ok" /\ sched'[q].logInsert = "ok")
            => LogCount(v)' >= 2]_vars

\* Two invocations selected the same video from the same due window, both
\* inserted their log row before either updated the schedule, and the
\* table holds two rows for the video.
C13_Witness ==
  \E p, q \in Procs : \E j \in 1 .. Len(sched[p].videosToUpdate) :
  \E k \in 1 .. Len(sched[q].videosToUpdate) :
    LET v == sched[p].videosToUpdate[j].id
    IN  /\ p # q /\ sched[q].videosToUpdate[k].id = v
        /\ sched[p].dueAt[j] = sched[q].dueAt[k]
        /\ sched[p].pc = "update" /\ sched[p].k = 0 /\ sched[p].logInsert = "ok"
        /\ sched[q].pc = "update" /\ sched[q].k = 0 /\ sched[q].logInsert = "ok"
        /\ v \in UpdateIds(sched[p]) \cap UpdateIds(sched[q])
        /\ videos[v].next_stat_fetch_at = sched[p].dueAt[j]
        /\ LogCount(v) >= 2

\* C14: a failed schedule update leaves the video's row as it was, with its
\* past next_stat_fetch_at, so a later invocation selects the video again;
\* with invocations repeated and failures running out, every video whose
\* update failed is eventually rescheduled.
C14_FailedUpdateRetried ==
  /\ [][\A p \in Procs : \A v \in sched'[p].failed \ sched[p].failed :
          /\ videos'[v] = videos[v]
          /\ videos'[v].next_stat_fetch_at # Null
          /\ videos'[v].next_stat_fetch_at <= sched'[p].currentTime]_vars
  /\ [][\A p \in Procs :
          (sched[p].pc = "select" /\ sched'[p].pc = "fetch") =>
            \A v \in DOMAIN videos :
              (videos[v].next_stat_fetch_at # Null
               /\ videos[v].next_stat_fetch_at <= sched[p].currentTime) =>
                \E j \in 1 .. Len(sched'[p].videosToUpdate) :
                  sched'[p].videosToUpdate[j].id = v]_vars
  /\ \A v \in 1 .. 2 :
       (v \in sched[1].failed) ~> (v \in sched[1].updated)

\* Within one hour an invocation logged a video and failed to update it,
\* and the next invocation selected it again, logged it again and
\* rescheduled it.
C14_Witness ==
  \E v \in sched[1].updated :
    /\ started.pass >= 2
    /\ videos[v].next_stat_fetch_at > sched[1].currentTime
    /\ \E r \in BagToSet(video_stats_logs) :
         /\ r.video_id = v /\ r.fetched_at = sched[1].currentTime
         /\ video_stats_logs[r] >= 2

C16_OnlyLastSearchFailureIsNotFound ==
  \A r \in InfoProcs :
    /\ info[r].directSearch \in {"empty", "throws"} =>
         info[r].nameSearch # "none" /\ info[r].searches = 2
    /\ info[r].nameSearch \in {"empty", "throws"} =>
         info[r].pc = "done" /\ info[r].status = 404

\* C16: a handle search that throws or finds nothing makes the request go
\* on to the general name search; a general name search that finds nothing
\* ends the request with 404, and one that throws ends it with 500; a
\* general name search that finds the channel does not end the request.
C16_LastSearchFailureEndsRequest ==
  \A r \in InfoProcs :
    /\ info[r].directSearch \in {"empty", "throws"} =>
         info[r].nameSearch # "none" /\ info[r].searches = 2
    /\ info[r].nameSearch = "empty" =>
         info[r].pc = "done" /\ info[r].status = 404
    /\ info[r].nameSearch = "throws" =>
         info[r].pc = "done" /\ info[r].status = 500
    /\ info[r].nameSearch = "hit" =>
         info[r].identifiedByMethod = "search_by_name"

\* The search for the @handle of a URL threw, the general name search found
\* the channel, and the request was served.
C16_Witness ==
  \E r \in InfoProcs :
    /\ info[r].pc = "done" /\ info[r].status = 200
    /\ info[r].shape = "handleUrl"
    /\ info[r].directSearch = "throws"
    /\ info[r].nameSearch = "hit"
    /\ info[r].logged


\* C17 (as stated): an on-demand request whose required input field is missing
\* or unusable (absent, not a string, empty, or a URL without a video id) is
\* answered with HTTP 400 by its validation step alone, with no call to the
\* External Metadata Source and no store write.
C17_BadInputIs400 ==
  [][
      /\ \A r \in InfoProcs :
          (info'[r] # info[r] /\ info'[r].shape \in {"blank", "missing"})
            => /\ info[r].pc = "idle" /\ info'[r].pc = "done"
               /\ info'[r].status = 400
               /\ info'[r].searches = 0
               /\ info'[r].statistics = NoStatistics
               /\ UNCHANGED <<channels, channel_stats_logs, videos, video_stats_logs>>
      /\ \A d \in DiscProcs :
          (disc'[d] # disc[d]
            /\ disc'[d].input \in {"absent", "empty", "falsyValue", "truthyValue"})
            => /\ disc[d].pc = "idle" /\ disc'[d].pc = "done"
               /\ disc'[d].status = 400
               /\ disc'[d].rows = <<>>
               /\ UNCHANGED <<channels, channel_stats_logs, videos, video_stats_logs>>
      /\ (vinfo' # vinfo
            /\ vinfo'.input \in {"absent", "empty", "notString", "urlWithoutId"})
            => /\ vinfo.pc = "idle" /\ vinfo'.pc = "done"
               /\ vinfo'.status = 400
               /\ vinfo'.apiCalls = 0
               /\ UNCHANGED <<channels, channel_stats_logs, videos, video_stats_logs>>
    ]_vars


\* C18: upserts are keyed on the external id.  After any sequence of
\* getChannelInfo and getChannelVideos requests no two channel rows carry the
\* same youtube_channel_id and no two video rows the same youtube_video_id; an
\* upsert of an id that is already stored replaces that row and adds none,
\* an upsert of a new id adds exactly one row.
C18_UpsertsKeyedOnExternalId ==
  [][
      /\ \A k1, k2 \in DOMAIN channels' :
           channels'[k1].youtube_channel_id = channels'[k2].youtube_channel_id
             => k1 = k2
      /\ \A r \in InfoProcs :
           (info[r].pc = "upsert" /\ channels' # channels)
             => LET rec == info[r].channelRecordToUpsert
                    stored == \E k \in DOMAIN channels :
                                channels[k].youtube_channel_id
                                  = rec.youtube_channel_id
                IN  /\ Cardinality(DOMAIN channels')
                         = Cardinality(DOMAIN channels)
                             + (IF stored THEN 0 ELSE 1)
                    /\ \E k \in DOMAIN channels' : channels'[k] = rec
      /\ \A d \in DiscProcs :
           (disc[d].pc = "upsert" /\ disc'[d].pc # "upsert" /\ disc'[d].status # 500)
             => LET ids == {disc[d].rows[j].youtube_video_id :
                              j \in 1 .. Len(disc[d].rows)}
                IN  /\ DOMAIN videos' = DOMAIN videos \cup ids
                    /\ Cardinality(DOMAIN videos')
                         = Cardinality(DOMAIN videos)
                             + Cardinality(ids \ DOMAIN videos)
                    /\ \A j \in 1 .. Len(disc[d].rows) :
                         videos'[disc[d].rows[j].youtube_video_id].next_stat_fetch_at
                           = disc[d].rows[j].next_stat_fetch_at
    ]_vars

\* A second getChannelInfo request has upserted the channel that the first one
\* stored and logged.
C18_Witness ==
  /\ started.infoFetched = 2
  /\ \E r \in InfoProcs :
       /\ info[r].pc = "log"
       /\ info[r].savedOrUpdatedChannel \in DOMAIN channels
  /\ BagCardinality(channel_stats_logs) >= 1
  /\ Cardinality(DOMAIN channels) = 1


\* C19 (as stated): a channel's last_fetched_at never decreases: under any
\* sequence or interleaving of getChannelInfo requests for the same channel,
\* no upsert replaces the stored last_fetched_at by an earlier timestamp.
C19_LastFetchedAtMonotonic ==
  [][\A c \in DOMAIN channels :
       c \in DOMAIN channels'
         /\ channels'[c].last_fetched_at >= channels[c].last_fetched_at]_vars


\* C20 (as stated): within one scheduler pass the clock is read once, at the
\* start: the fetched_at of every log row and the last_stat_logged_at of every
\* schedule update that the pass builds equal that one currentTime.
C20_SingleNowPerPass ==
  \A p \in Procs :
    /\ \A j \in 1 .. Len(sched[p].videoStatsLogsToInsert) :
         sched[p].videoStatsLogsToInsert[j].fetched_at = sched[p].currentTime
    /\ \A j \in 1 .. Len(sched[p].videoScheduleUpdates) :
         sched[p].videoScheduleUpdates[j].last_stat_logged_at
           = sched[p].currentTime


\* C21: for every video a scheduler pass refreshes, the next_stat_fetch_at
\* written to its row is the pass-start time plus the written
\* stat_fetch_frequency_hours, and that interval is 1, 3 or 24 hours.
C21_WrittenScheduleIsStartPlusInterval ==
  [][\A p \in Procs : \A v \in sched'[p].updated \ sched[p].updated :
       /\ videos'[v].stat_fetch_frequency_hours \in {1, 3, 24}
       /\ videos'[v].next_stat_fetch_at
            = sched[p].currentTime + videos'[v].stat_fetch_frequency_hours]_vars

\* A pass that started an hour ago has moved a video from the hourly to the
\* three-hourly interval, counted from its start.
C21_Witness ==
  \E p \in Procs : \E v \in sched[p].updated :
    /\ now > sched[p].currentTime
    /\ videos[v].stat_fetch_frequency_hours = 3
    /\ videos[v].next_stat_fetch_at = sched[p].currentTime + 3
    /\ videos[v].last_stat_logged_at > sched[p].currentTime


\* C22 (as stated): under any interleaving of two overlapping scheduler
\* passes that process the same video, no schedule update writes a
\* next_stat_fetch_at earlier than the value the row holds at that moment.
C22_NextFetchNeverDecreases ==
  [][\A p \in Procs : \A v \in sched'[p].updated \ sched[p].updated :
       videos'[v].next_stat_fetch_at >= videos[v].next_stat_fetch_at]_vars


\* C23: the interval policy is memoryless.  Two videos with the same
\* published_at that a pass processes at the same pass time get the same
\* interval and the same next_stat_fetch_at, whatever
\* stat_fetch_frequency_hours, next_stat_fetch_at and last_stat_logged_at
\* their rows held.
C23_PolicyMemoryless ==
  \A p, q \in Procs :
    \A j \in 1 .. Len(sched[p].videoScheduleUpdates) :
    \A k \in 1 .. Len(sched[q].videoScheduleUpdates) :
      LET uj == sched[p].videoScheduleUpdates[j]
          uk == sched[q].videoScheduleUpdates[k]
          rj == RowFor(sched[p].videosToUpdate, uj.id)
          rk == RowFor(sched[q].videosToUpdate, uk.id)
      IN  (rj.published_at = rk.published_at
             /\ sched[p].currentTime = sched[q].currentTime)
            => /\ uj.stat_fetch_frequency_hours = uk.stat_fetch_frequency_hours
               /\ uj.next_stat_fetch_at = uk.next_stat_fetch_at

\* A pass has scheduled two videos of the same age alike, though one row
\* had the hourly interval of discovery and the other a longer interval and
\* an older due time from an earlier pass.
C23_Witness ==
  \E p \in Procs :
    \E j, k \in 1 .. Len(sched[p].videoScheduleUpdates) :
      LET uj == sched[p].videoScheduleUpdates[j]
          uk == sched[p].videoScheduleUpdates[k]
          rj == RowFor(sched[p].videosToUpdate, uj.id)
          rk == RowFor(sched[p].videosToUpdate, uk.id)
      IN  /\ uj.id # uk.id
          /\ rj.published_at = rk.published_at
          /\ rj.stat_fetch_frequency_hours = 1
          /\ rk.stat_fetch_frequency_hours > 1
          /\ sched[p].dueAt[j] # sched[p].dueAt[k]
          /\ uj.next_stat_fetch_at = uk.next_stat_fetch_at
          /\ uj.stat_fetch_frequency_hours = uk.stat_fetch_frequency_hours


\* C24: write ordering within a scheduler pass.  The one insert of all the
\* pass's log rows is attempted before any schedule update and changes no
\* video row; the schedule updates then come one video per step, in the
\* order they were staged, and none is issued while the insert has not been
\* attempted.
C24_LogInsertBeforeScheduleUpdates ==
  [][\A p \in Procs :
       LET s == sched[p]
           t == sched'[p]
       IN  /\ (t # s /\ s.logInsert = "none") =>
                /\ videos' = videos
                /\ t.k = 0 /\ t.updated = {} /\ t.failed = {}
           /\ (s.pc = "insert" /\ t # s) =>
                /\ t.logInsert \in {"ok", "failed"}
                /\ t.logInsert = "ok" =>
                     video_stats_logs'
                       = InsertInto(video_stats_logs, s.videoStatsLogsToInsert)
           /\ (s.pc = "update" /\ t # s) =>
                /\ s.logInsert # "none"
                /\ t.k = s.k + 1
                /\ video_stats_logs' = video_stats_logs
                /\ \A v \in DOMAIN videos :
                     videos'[v] # videos[v] => v = s.videoScheduleUpdates[t.k].id
    ]_vars

\* A pass whose insert was attempted and failed has since updated two
\* videos, one after the other.
C24_Witness ==
  \E p \in Procs :
    /\ sched[p].logInsert = "failed"
    /\ sched[p].k = 2
    /\ Cardinality(sched[p].updated) = 2
    /\ \A v \in sched[p].updated :
         videos[v].next_stat_fetch_at > sched[p].currentTime


SelectedIds(s) == {s.videosToUpdate[j].id : j \in 1 .. Len(s.videosToUpdate)}

\* C25: a scheduler pass selects exactly the videos whose next_stat_fetch_at
\* is at or before the pass's now, all of them whatever their number, each
\* once; a video it did not select keeps every field and gets no log row
\* from the pass.
C25_SelectsExactlyTheDue ==
  [][\A p \in Procs :
       LET s == sched[p]
           t == sched'[p]
       IN  /\ (s.pc = "select" /\ t # s /\ t.status # 500) =>
                /\ SelectedIds(t)
                     = {v \in DOMAIN videos :
                          /\ videos[v].next_stat_fetch_at # Null
                          /\ videos[v].next_stat_fetch_at <= s.currentTime}
                /\ Len(t.videosToUpdate) = Cardinality(SelectedIds(t))
           /\ (t # s /\ s.pc # "idle") =>
                \A v \in DOMAIN videos \ SelectedIds(t) :
                  \/ t.pc = "idle"
                  \/ /\ videos'[v] = videos[v]
                     /\ \A r \in BagToSet(video_stats_logs') :
                          r.video_id = v =>
                            Copies(video_stats_logs', r)
                              = Copies(video_stats_logs, r)
                     /\ LogRowsFor(t, v) = {}
                     /\ v \notin UpdateIds(t)
    ]_vars

\* A completed pass over more than two batches of due rows has rescheduled
\* every row it selected, and the one row that was not due is as discovery
\* left it, without a log row.
C25_Witness ==
  \E p \in Procs : \E v \in DOMAIN videos :
    /\ sched[p].pc = "done" /\ sched[p].status = 200
    /\ Len(sched[p].videosToUpdate) = MaxDue - 1
    /\ sched[p].updated = SelectedIds(sched[p])
    /\ v \notin SelectedIds(sched[p])
    /\ videos[v] = DiscoveredRow(v, MaxTime)
    /\ \A r \in BagToSet(video_stats_logs) : r.video_id # v


\* C26: tracking has no terminal state.  No step removes a video row or
\* leaves it without a due time, and, with the clock advancing, the
\* scheduler invoked again and again and failures running out, a tracked
\* video that is due is always refreshed and scheduled ahead again.
C26_TrackedForever ==
  /\ [][/\ DOMAIN videos \subseteq DOMAIN videos'
        /\ \A v \in DOMAIN videos' : videos'[v].next_stat_fetch_at # Null]_vars
  /\ \A v \in 1 .. 2 :
       (v \in DOMAIN videos /\ videos[v].next_stat_fetch_at <= now)
         ~> (v \in DOMAIN videos /\ videos[v].next_stat_fetch_at > now)

\* A video has been refreshed at three different hours and is scheduled
\* again.
C26_Witness ==
  \E v \in DOMAIN videos :
    /\ Cardinality({r.fetched_at : r \in {x \in BagToSet(video_stats_logs) :
                                              x.video_id = v}}) >= 3
    /\ videos[v].next_stat_fetch_at > now


\* C27 (as stated): an input that is itself a 24-character string beginning
\* with UC, neither a URL nor an @handle, is taken for the channel id:
\* resolving it makes no search call.
C27_RawIdUsedDirectly ==
  \A r \in InfoProcs :
    info[r].shape = "rawId" =>
      /\ info[r].searches = 0
      /\ info[r].nameSearch = "none"


\* C28: re-discovery overwrites the schedule.  The upsert of getChannelVideos
\* gives every returned video, tracked already or not, a next_stat_fetch_at
\* one hour after the time the request read the clock, the interval 1 and a
\* last_stat_logged_at of that time, whatever the scheduler had stored.
C28_RediscoveryOverwritesSchedule ==
  [][\A d \in DiscProcs :
       (disc[d].pc = "upsert" /\ disc'[d].pc # "upsert" /\ disc'[d].status # 500)
         => \A j \in 1 .. Len(disc[d].rows) :
              LET row == disc[d].rows[j]
                  new == videos'[row.youtube_video_id]
              IN  /\ row.last_stat_logged_at <= now
                  /\ new.last_stat_logged_at = row.last_stat_logged_at
                  /\ new.next_stat_fetch_at = row.last_stat_logged_at + 1
                  /\ new.stat_fetch_frequency_hours = 1]_vars

\* A scheduler pass had put a video on the 24-hour interval; a discovery
\* request that has since completed pulled it back to one hour ahead.
C28_Witness ==
  \E p \in Procs : \E d \in DiscProcs :
    \E j \in 1 .. Len(sched[p].videoScheduleUpdates) :
      LET update == sched[p].videoScheduleUpdates[j]
      IN  /\ update.id \in sched[p].updated
          /\ update.stat_fetch_frequency_hours = 24
          /\ disc[d].pc = "done" /\ disc[d].status = 200
          /\ videos[update.id].stat_fetch_frequency_hours = 1
          /\ videos[update.id].next_stat_fetch_at = now + 1
          /\ videos[update.id].next_stat_fetch_at < update.next_stat_fetch_at


\* C29: a scheduler pass writes nothing to the store before every batch of
\* its selection has been fetched.  A pass whose select fails or one of
\* whose batch fetches throws ends with HTTP 500 without having inserted a
\* log row or updated a video, the videos of the batches fetched before the
\* failure included.
C29_NoWriteBeforeAllBatchesFetched ==
  [][\A p \in Procs :
       LET s == sched[p]
           t == sched'[p]
       IN  /\ (t # s /\ s.pc \in {"idle", "select", "fetch"}) =>
                /\ videos' = videos
                /\ video_stats_logs' = video_stats_logs
           /\ (t # s /\ t.status = 500) =>
                /\ s.pc \in {"select", "fetch"} /\ t.pc = "done"
                /\ t.logInsert = "none" /\ t.k = 0
                /\ t.updated = {} /\ t.failed = {}
                /\ \A v \in SelectedIds(t) :
                     Lte(videos'[v].next_stat_fetch_at, t.currentTime)
           /\ (t # s /\ s.pc \in {"insert", "update"}) =>
                Len(s.calls) * BatchSize >= Len(s.videosToUpdate)
    ]_vars

\* The first batch of fifty was fetched and its rows staged, the second
\* fetch threw: the pass ended with 500, no log row and every video still
\* due.
C29_Witness ==
  \E p \in Procs :
    /\ sched[p].pc = "done" /\ sched[p].status = 500
    /\ Len(sched[p].calls) = 2
    /\ Len(sched[p].videoStatsLogsToInsert) = BatchSize
    /\ video_stats_logs = EmptyBag
    /\ \A v \in SelectedIds(sched[p]) :
         Lte(videos[v].next_stat_fetch_at, sched[p].currentTime)


\* C30: the count in the scheduler's summary is the number of due videos the
\* pass selected at its start, also when some of them were skipped as
\* unmatched, when the log insert failed and when schedule updates failed;
\* with no video due the pass returns at once, without a call to the API and
\* without a store write.
C30_SummaryCountsSelected ==
  [][\A p \in Procs :
       LET s == sched[p]
           t == sched'[p]
       IN  (t # s /\ t.pc = "done") =>
             /\ (t.status = 200 /\ Len(t.dueAt) > 0) =>
                  t.processed = Len(t.dueAt)
             /\ (t.status = 200 /\ Len(t.dueAt) = 0) =>
                  /\ s.pc = "select"
                  /\ t.calls = <<>> /\ t.logInsert = "none" /\ t.k = 0
                  /\ videos' = videos
                  /\ video_stats_logs' = video_stats_logs
                  /\ t.processed = Null
             /\ t.status = 500 => t.processed = Null
    ]_vars

\* A pass selected two videos, got no statistics for one and failed to
\* update the other: it refreshed none and reports two.
C30_Witness ==
  \E p \in Procs :
    /\ sched[p].pc = "done" /\ sched[p].status = 200
    /\ sched[p].processed = 2
    /\ sched[p].unmatched # {}
    /\ sched[p].failed # {}
    /\ sched[p].updated = {}

====
